---- MODULE Spec2Model ----
(***************************************************************************)
(* Model of the token service (package services): a Redis cache of the     *)
(* per-client token balance in front of a Postgres ledger of transactions, *)
(* with a background goroutine that refreshes the cache from the ledger.   *)
(* Every Redis or Postgres call is one atomic step; handlers, the          *)
(* goroutines spawned by DeductTokens and the refresh worker interleave    *)
(* between those steps.                                                    *)
(***************************************************************************)
EXTENDS Integers, Sequences, FiniteSets, TLC

(* ---- bounds of the model ---- *)
NumCallers == 2
MaxOps == 2
MaxAmount == 1
MaxEnv == 2
\* calls in a run of calls made one after another
SeqOps == 5
\* calls in a run of calls made strictly one after another, stores failing
SerialOps == 3
\* calls in a run that starts with the refresh channel full
FullOps == 2

(* ---- program constants ---- *)
TokenCost == 1
CacheRefreshBatch == 100

Callers == 1..NumCallers
Amounts == 1..MaxAmount

\* rows of table clients: the auth tokens that exist; "nosuch" matches no row
Clients == {"tok1"}
AuthTokens == Clients \cup {"nosuch"}

\* the error of a Redis GET whose key is absent (never written, evicted or
\* expired)
Nil == "redis.Nil"

\* a cache entry is <<balance>>, or <<>> when the key is absent
Absent == <<>>

VARIABLES
  ledger,       \* table token_transactions, in insertion order
  cache,        \* Redis: auth token -> <<balance>>, or Absent
  refreshChan,  \* ts.refreshChan
  bgWrite,      \* auth token -> goroutines of DeductTokens about to record
  bgSend,       \* auth token -> goroutines of DeductTokens about to send
  proc,         \* caller -> position and locals of the call in progress
  worker,       \* position and locals of backgroundCacheRefresh
  ret,          \* the call that returns in this step (NoRet when none does)
  ops,          \* number of calls started so far
  limit,        \* number of calls the run may start
  env,          \* number of store failures and key expirations so far
  solo,         \* TRUE while calls have run one at a time, without faults
  seq,          \* the calls completed in the current run of such calls
  admitted,     \* auth token -> calls of DeductTokens that returned nil
  suspect       \* auth token -> a write of a USAGE row failed and the
                \* balance has not been refreshed from the ledger since

vars == <<ledger, cache, refreshChan, bgWrite, bgSend, proc, worker, ret,
          ops, limit, env, solo, seq, admitted, suspect>>

(* ---- the ledger ---- *)
Row(id, amount, type) == [client |-> id, amount |-> amount, type |-> type]

RECURSIVE SumRows(_, _)
SumRows(rows, id) ==
  IF rows = <<>> THEN 0
  ELSE LET r == Head(rows)
       IN  (IF r.client # id THEN 0
            ELSE IF r.type = "PURCHASE" THEN r.amount ELSE 0 - r.amount)
           + SumRows(Tail(rows), id)

\* the SELECT of refreshBalance: COALESCE(SUM(CASE ...), 0); an auth token
\* without a client selects no rows and yields 0
BalanceQuery(id) == IF id \in Clients THEN SumRows(ledger, id) ELSE 0

\* the INSERT ... SELECT of recordTransaction: one row per matching client,
\* none (and no error) when no client matches
InsertRow(id, amount, type) ==
  IF id \in Clients THEN Append(ledger, Row(id, amount, type)) ELSE ledger

\* what the ledger says of a client: the amounts purchased, the number of
\* usage rows
RECURSIVE Purchased(_, _)
Purchased(rows, id) ==
  IF rows = <<>> THEN 0
  ELSE (IF Head(rows).client = id /\ Head(rows).type = "PURCHASE"
          THEN Head(rows).amount ELSE 0)
       + Purchased(Tail(rows), id)

RECURSIVE UsageCount(_, _)
UsageCount(rows, id) ==
  IF rows = <<>> THEN 0
  ELSE (IF Head(rows).client = id /\ Head(rows).type = "USAGE" THEN 1 ELSE 0)
       + UsageCount(Tail(rows), id)

(* ---- the cache ---- *)
CacheSet(id, balance) == [cache EXCEPT ![id] = <<balance>>]
CacheDel(id) == [cache EXCEPT ![id] = Absent]
CacheGet(id) == cache[id][1]

(* ---- calls ---- *)
Idle == [pc |-> "idle", op |-> "none", id |-> "none", amt |-> 0, bal |-> 0,
         quiet |-> FALSE]

NoRet == [caller |-> 0, op |-> "none", id |-> "none", amt |-> 0,
          err |-> "none", val |-> 0]

AllIdle == \A c \in Callers : proc[c].pc = "idle"
NoBackground ==
  /\ \A id \in AuthTokens : bgWrite[id] = 0 /\ bgSend[id] = 0
  /\ refreshChan = <<>>
  /\ worker.pc = "recv"
Quiescent == AllIdle /\ NoBackground

\* The service starts on the database and the Redis it is given.  The
\* starting states are states earlier runs of the service leave behind: no
\* transactions; one purchase; one purchase and the usage row of one call
\* of DeductTokens.  The key of a client is absent (never written, or
\* expired), or holds what those runs wrote last to it.
StartStates ==
  {[ledger |-> <<>>, balance |-> Absent]}
  \cup {[ledger |-> <<Row(id, MaxAmount, "PURCHASE")>>, balance |-> b] :
          id \in Clients, b \in {Absent, <<MaxAmount>>}}
  \cup {[ledger |-> <<Row(id, MaxAmount, "PURCHASE"),
                      Row(id, 0 - TokenCost, "USAGE")>>, balance |-> b] :
          id \in Clients, b \in {Absent, <<MaxAmount - TokenCost>>}}

Start(n) ==
  /\ limit = n
  /\ \E s \in StartStates :
       /\ ledger = s.ledger
       /\ cache = [id \in AuthTokens |->
                    IF id \in Clients THEN s.balance ELSE Absent]
       /\ admitted = [id \in AuthTokens |-> UsageCount(s.ledger, id)]
  /\ refreshChan = <<>>
  /\ bgWrite = [id \in AuthTokens |-> 0]
  /\ bgSend = [id \in AuthTokens |-> 0]
  /\ proc = [c \in Callers |-> Idle]
  /\ worker = [pc |-> "recv", id |-> "none", bal |-> 0]
  /\ ret = NoRet
  /\ ops = 0
  /\ env = 0
  /\ solo = TRUE
  /\ seq = <<>>
  /\ suspect = [id \in AuthTokens |-> FALSE]

Init == Start(MaxOps)

(* ---- returning from a call, and the record of calls run one at a time ---- *)
Entry(op, id, amt, err, val, quiet, cached) ==
  [op |-> op, id |-> id, amt |-> amt, err |-> err, val |-> val,
   quiet |-> quiet, cached |-> cached]

Track(s, q) == solo' = s /\ seq' = (IF s THEN q ELSE <<>>)

\* a call starts: it continues the run when no other call is in progress,
\* and it starts a new run when nothing at all is in progress
SoloAtStart == AllIdle /\ (solo \/ NoBackground)
SeqAtStart == IF solo THEN seq ELSE <<>>

\* caller c returns (err, val) from the call (op, id, amt)
Return(c, op, id, amt, err, val) ==
  /\ proc' = [proc EXCEPT ![c] = Idle]
  /\ ret' = [caller |-> c, op |-> op, id |-> id, amt |-> amt, err |-> err,
             val |-> val]

\* return from the first step of a call
ReturnAtStart(c, op, id, amt, err, val, fault) ==
  /\ Return(c, op, id, amt, err, val)
  /\ IF fault THEN Track(FALSE, <<>>)
     ELSE Track(SoloAtStart,
                Append(SeqAtStart,
                       Entry(op, id, amt, err, val, Quiescent, cache[id])))

\* go on after the first step of a call
ContinueAtStart(c, pc, op, id, amt, bal) ==
  /\ proc' = [proc EXCEPT ![c] =
                [pc |-> pc, op |-> op, id |-> id, amt |-> amt, bal |-> bal,
                 quiet |-> SoloAtStart /\ Quiescent]]
  /\ ret' = NoRet
  /\ Track(SoloAtStart, SeqAtStart)

\* return from a later step of a call
ReturnLater(c, err, val, fault, cached) ==
  LET p == proc[c] IN
  /\ Return(c, p.op, p.id, p.amt, err, val)
  /\ IF fault THEN Track(FALSE, <<>>)
     ELSE Track(solo,
                Append(seq, Entry(p.op, p.id, p.amt, err, val, p.quiet,
                                  cached)))

\* a request is served by the first free handler
CanStart(c) ==
  /\ proc[c].pc = "idle"
  /\ \A d \in Callers : d < c => proc[d].pc # "idle"
  /\ ops < limit
  /\ limit' = limit

\* a call to Postgres or Redis succeeds (ok) or fails
Store(ok) ==
  /\ ok \/ env < MaxEnv
  /\ env' = IF ok THEN env ELSE env + 1

(* ---- DeductTokens ---- *)
\* variants of the balance check that are off by one
InsufficientAtCost(balance) == balance <= TokenCost
InsufficientBelowZero(balance) == balance < 0

Insufficient(balance) == balance < TokenCost

\* DeductTokens up to the balance check: read the cache, compare
DeductTokens(c, id, ok) ==
  /\ Store(ok)
  /\ CanStart(c)
  /\ ops' = ops + 1
  /\ IF ~ok
       THEN ReturnAtStart(c, "DeductTokens", id, 0, "redis error", 0, TRUE)
     ELSE IF cache[id] = Absent
       THEN ReturnAtStart(c, "DeductTokens", id, 0, Nil, 0, FALSE)
     ELSE IF Insufficient(CacheGet(id))
       THEN ReturnAtStart(c, "DeductTokens", id, 0,
                          "ErrInsufficientTokens", 0, FALSE)
     ELSE ContinueAtStart(c, "deduct_update", "DeductTokens", id, 0,
                          CacheGet(id))
  /\ UNCHANGED <<ledger, cache, refreshChan, bgWrite, bgSend, worker,
                 admitted, suspect>>

\* a variant of the optimistic write that stores the balance it read
DeductUpdateSameBalance(c, ok) ==
  LET p == proc[c] IN
  /\ Store(ok)
  /\ limit' = limit
  /\ p.pc = "deduct_update"
  /\ IF ~ok
       THEN /\ ReturnLater(c, "redis error", 0, TRUE, cache[p.id])
            /\ UNCHANGED <<cache, bgWrite, admitted>>
       ELSE /\ cache' = CacheSet(p.id, p.bal)
            /\ bgWrite' = [bgWrite EXCEPT ![p.id] = @ + 1]
            /\ admitted' = [admitted EXCEPT ![p.id] = @ + 1]
            /\ ReturnLater(c, "nil", 0, FALSE, <<p.bal>>)
  /\ UNCHANGED <<ledger, refreshChan, bgSend, worker, ops, suspect>>

\* a variant of the optimistic write that decrements the balance the cache
\* holds at the time of the write
DeductUpdateDecrement(c, ok) ==
  LET p == proc[c]
      now == IF cache[p.id] = Absent THEN p.bal ELSE CacheGet(p.id)
  IN
  /\ Store(ok)
  /\ limit' = limit
  /\ p.pc = "deduct_update"
  /\ IF ~ok
       THEN /\ ReturnLater(c, "redis error", 0, TRUE, cache[p.id])
            /\ UNCHANGED <<cache, bgWrite, admitted>>
       ELSE /\ cache' = CacheSet(p.id, now - TokenCost)
            /\ bgWrite' = [bgWrite EXCEPT ![p.id] = @ + 1]
            /\ admitted' = [admitted EXCEPT ![p.id] = @ + 1]
            /\ ReturnLater(c, "nil", 0, FALSE, <<now - TokenCost>>)
  /\ UNCHANGED <<ledger, refreshChan, bgSend, worker, ops, suspect>>

\* a variant that starts the goroutine before the optimistic write, so that
\* a call whose write fails records a usage too
DeductUpdateRecordFirst(c, ok) ==
  LET p == proc[c] IN
  /\ Store(ok)
  /\ limit' = limit
  /\ p.pc = "deduct_update"
  /\ bgWrite' = [bgWrite EXCEPT ![p.id] = @ + 1]
  /\ IF ~ok
       THEN /\ ReturnLater(c, "redis error", 0, TRUE, cache[p.id])
            /\ UNCHANGED <<cache, admitted>>
       ELSE /\ cache' = CacheSet(p.id, p.bal - TokenCost)
            /\ admitted' = [admitted EXCEPT ![p.id] = @ + 1]
            /\ ReturnLater(c, "nil", 0, FALSE, <<p.bal - TokenCost>>)
  /\ UNCHANGED <<ledger, refreshChan, bgSend, worker, ops, suspect>>

\* the optimistic write of balance - TokenCost, the go statement, return nil
DeductUpdate(c, ok) ==
  LET p == proc[c] IN
  /\ Store(ok)
  /\ limit' = limit
  /\ p.pc = "deduct_update"
  /\ IF ~ok
       THEN /\ ReturnLater(c, "redis error", 0, TRUE, cache[p.id])
            /\ UNCHANGED <<cache, bgWrite, admitted>>
       ELSE /\ cache' = CacheSet(p.id, p.bal - TokenCost)
            /\ bgWrite' = [bgWrite EXCEPT ![p.id] = @ + 1]
            /\ admitted' = [admitted EXCEPT ![p.id] = @ + 1]
            /\ ReturnLater(c, "nil", 0, FALSE, <<p.bal - TokenCost>>)
  /\ UNCHANGED <<ledger, refreshChan, bgSend, worker, ops, suspect>>

\* a variant of the goroutine that drops a failed write without a refresh
BgRecordNoRefresh(id, ok) ==
  /\ Store(ok)
  /\ limit' = limit
  /\ bgWrite[id] > 0
  /\ bgWrite' = [bgWrite EXCEPT ![id] = @ - 1]
  /\ IF ok
       THEN /\ ledger' = InsertRow(id, 0 - TokenCost, "USAGE")
            /\ UNCHANGED <<bgSend, solo, seq, suspect>>
       ELSE /\ suspect' = [suspect EXCEPT ![id] = TRUE]
            /\ Track(FALSE, <<>>)
            /\ UNCHANGED <<ledger, bgSend>>
  /\ ret' = NoRet
  /\ UNCHANGED <<cache, refreshChan, proc, worker, ops, admitted>>

\* the goroutine of DeductTokens: recordTransaction(-TokenCost, "USAGE")
BgRecord(id, ok) ==
  /\ Store(ok)
  /\ limit' = limit
  /\ bgWrite[id] > 0
  /\ bgWrite' = [bgWrite EXCEPT ![id] = @ - 1]
  /\ IF ok
       THEN /\ ledger' = InsertRow(id, 0 - TokenCost, "USAGE")
            /\ UNCHANGED <<bgSend, solo, seq, suspect>>
       ELSE /\ bgSend' = [bgSend EXCEPT ![id] = @ + 1]
            /\ suspect' = [suspect EXCEPT ![id] = TRUE]
            /\ Track(FALSE, <<>>)
            /\ UNCHANGED ledger
  /\ ret' = NoRet
  /\ UNCHANGED <<cache, refreshChan, proc, worker, ops, admitted>>

\* a variant of the send that gives up when the channel is full (a select
\* with a default case)
BgSendOrDrop(id) ==
  /\ env' = env /\ limit' = limit
  /\ bgSend[id] > 0
  /\ bgSend' = [bgSend EXCEPT ![id] = @ - 1]
  /\ refreshChan' = IF Len(refreshChan) < CacheRefreshBatch
                      THEN Append(refreshChan, id) ELSE refreshChan
  /\ ret' = NoRet
  /\ UNCHANGED <<ledger, cache, bgWrite, proc, worker, ops, solo, seq,
                 admitted, suspect>>

\* the goroutine of DeductTokens: ts.refreshChan <- authToken, which blocks
\* while the channel is full
BgSend(id) ==
  /\ env' = env /\ limit' = limit
  /\ bgSend[id] > 0
  /\ Len(refreshChan) < CacheRefreshBatch
  /\ bgSend' = [bgSend EXCEPT ![id] = @ - 1]
  /\ refreshChan' = Append(refreshChan, id)
  /\ ret' = NoRet
  /\ UNCHANGED <<ledger, cache, bgWrite, proc, worker, ops, solo, seq,
                 admitted, suspect>>

(* ---- AddTokens ---- *)
\* a variant of AddTokens that goes on to the refresh when the insert failed
AddTokensIgnoringError(c, id, amount, ok) ==
  /\ Store(ok)
  /\ CanStart(c)
  /\ ops' = ops + 1
  /\ ledger' = IF ok THEN InsertRow(id, amount, "PURCHASE") ELSE ledger
  /\ ContinueAtStart(c, "refresh_query", "AddTokens", id, amount, 0)
  /\ UNCHANGED <<cache, refreshChan, bgWrite, bgSend, worker,
                 admitted, suspect>>

\* AddTokens up to the error check: recordTransaction(amount, "PURCHASE")
AddTokens(c, id, amount, ok) ==
  /\ Store(ok)
  /\ CanStart(c)
  /\ ops' = ops + 1
  /\ IF ~ok
       THEN /\ ReturnAtStart(c, "AddTokens", id, amount, "db error", 0, TRUE)
            /\ UNCHANGED ledger
       ELSE /\ ledger' = InsertRow(id, amount, "PURCHASE")
            /\ ContinueAtStart(c, "refresh_query", "AddTokens", id, amount, 0)
  /\ UNCHANGED <<cache, refreshChan, bgWrite, bgSend, worker,
                 admitted, suspect>>

(* ---- GetBalance ---- *)
\* GetBalance up to the cache miss: a hit returns the cached balance
GetBalance(c, id, ok) ==
  /\ Store(ok)
  /\ CanStart(c)
  /\ ops' = ops + 1
  /\ IF ~ok
       THEN ReturnAtStart(c, "GetBalance", id, 0, "redis error", 0, TRUE)
     ELSE IF cache[id] # Absent
       THEN ReturnAtStart(c, "GetBalance", id, 0, "nil", CacheGet(id), FALSE)
     ELSE ContinueAtStart(c, "refresh_query", "GetBalance", id, 0, 0)
  /\ UNCHANGED <<ledger, cache, refreshChan, bgWrite, bgSend, worker,
                 admitted, suspect>>

\* GetBalance after the refresh: read the cache again
GetBalanceReread(c, ok) ==
  LET p == proc[c] IN
  /\ Store(ok)
  /\ limit' = limit
  /\ p.pc = "reread"
  /\ IF ~ok THEN ReturnLater(c, "redis error", 0, TRUE, cache[p.id])
     ELSE IF cache[p.id] = Absent THEN ReturnLater(c, Nil, 0, FALSE, cache[p.id])
     ELSE ReturnLater(c, "nil", CacheGet(p.id), FALSE, cache[p.id])
  /\ UNCHANGED <<ledger, cache, refreshChan, bgWrite, bgSend, worker, ops,
                 admitted, suspect>>

(* ---- refreshBalance, as called by AddTokens and GetBalance ---- *)
\* the SELECT of the balance
RefreshQuery(c, ok) ==
  LET p == proc[c] IN
  /\ Store(ok)
  /\ limit' = limit
  /\ p.pc = "refresh_query"
  /\ IF ~ok
       THEN ReturnLater(c, "db error", 0, TRUE, cache[p.id])
       ELSE /\ proc' = [proc EXCEPT ![c].pc = "refresh_update",
                                    ![c].bal = BalanceQuery(p.id)]
            /\ ret' = NoRet /\ UNCHANGED <<solo, seq>>
  /\ UNCHANGED <<ledger, cache, refreshChan, bgWrite, bgSend, worker, ops,
                 admitted, suspect>>

\* updateBalanceInCache, then back in the caller: AddTokens returns what
\* refreshBalance returned, GetBalance goes on to read the cache again
RefreshUpdate(c, ok) ==
  LET p == proc[c] IN
  /\ Store(ok)
  /\ limit' = limit
  /\ p.pc = "refresh_update"
  /\ IF ~ok
       THEN /\ ReturnLater(c, "redis error", 0, TRUE, cache[p.id])
            /\ UNCHANGED <<cache, suspect>>
       ELSE /\ cache' = CacheSet(p.id, p.bal)
            /\ suspect' = [suspect EXCEPT ![p.id] = FALSE]
            /\ IF p.op = "AddTokens"
                 THEN ReturnLater(c, "nil", 0, FALSE, <<p.bal>>)
                 ELSE /\ proc' = [proc EXCEPT ![c].pc = "reread"]
                      /\ ret' = NoRet /\ UNCHANGED <<solo, seq>>
  /\ UNCHANGED <<ledger, refreshChan, bgWrite, bgSend, worker, ops, admitted>>

(* ---- backgroundCacheRefresh ---- *)
WorkerIdle == [pc |-> "recv", id |-> "none", bal |-> 0]

\* for authToken := range ts.refreshChan
WorkerRecv ==
  /\ env' = env /\ limit' = limit
  /\ worker.pc = "recv"
  /\ refreshChan # <<>>
  /\ worker' = [pc |-> "refresh_query", id |-> Head(refreshChan), bal |-> 0]
  /\ refreshChan' = Tail(refreshChan)
  /\ Track(FALSE, <<>>)
  /\ ret' = NoRet
  /\ UNCHANGED <<ledger, cache, bgWrite, bgSend, proc, ops,
                 admitted, suspect>>

\* a variant of the worker that puts the auth token back on the channel when
\* the SELECT fails
WorkerQueryRequeue(ok) ==
  /\ Store(ok)
  /\ limit' = limit
  /\ worker.pc = "refresh_query"
  /\ worker' = IF ok THEN [worker EXCEPT !.pc = "refresh_update",
                                         !.bal = BalanceQuery(worker.id)]
               ELSE WorkerIdle
  /\ refreshChan' = IF ok THEN refreshChan ELSE Append(refreshChan, worker.id)
  /\ Track(FALSE, <<>>)
  /\ ret' = NoRet
  /\ UNCHANGED <<ledger, cache, bgWrite, bgSend, proc, ops, admitted, suspect>>

\* refreshBalance in the worker: the SELECT; an error is printed
WorkerQuery(ok) ==
  /\ Store(ok)
  /\ limit' = limit
  /\ worker.pc = "refresh_query"
  /\ worker' = IF ok THEN [worker EXCEPT !.pc = "refresh_update",
                                         !.bal = BalanceQuery(worker.id)]
               ELSE WorkerIdle
  /\ Track(FALSE, <<>>)
  /\ ret' = NoRet
  /\ UNCHANGED <<ledger, cache, refreshChan, bgWrite, bgSend, proc, ops,
                 admitted, suspect>>

\* a variant of the worker that adds the balance it read to the key instead
\* of setting the key to it
WorkerUpdateAdd(ok) ==
  LET old == IF cache[worker.id] = Absent THEN 0 ELSE CacheGet(worker.id)
  IN
  /\ Store(ok)
  /\ limit' = limit
  /\ worker.pc = "refresh_update"
  /\ cache' = IF ok THEN CacheSet(worker.id, old + worker.bal) ELSE cache
  /\ suspect' = IF ok THEN [suspect EXCEPT ![worker.id] = FALSE] ELSE suspect
  /\ worker' = WorkerIdle
  /\ Track(FALSE, <<>>)
  /\ ret' = NoRet
  /\ UNCHANGED <<ledger, refreshChan, bgWrite, bgSend, proc, ops, admitted>>

\* refreshBalance in the worker: updateBalanceInCache; an error is printed
WorkerUpdate(ok) ==
  /\ Store(ok)
  /\ limit' = limit
  /\ worker.pc = "refresh_update"
  /\ cache' = IF ok THEN CacheSet(worker.id, worker.bal) ELSE cache
  /\ suspect' = IF ok THEN [suspect EXCEPT ![worker.id] = FALSE] ELSE suspect
  /\ worker' = WorkerIdle
  /\ Track(FALSE, <<>>)
  /\ ret' = NoRet
  /\ UNCHANGED <<ledger, refreshChan, bgWrite, bgSend, proc, ops, admitted>>

(* ---- Redis ---- *)
\* the key expires RedisCacheTTL after its last write, or is evicted
Expire(id) ==
  /\ Store(FALSE)
  /\ limit' = limit
  /\ cache[id] # Absent
  /\ cache' = CacheDel(id)
  /\ Track(FALSE, <<>>)
  /\ ret' = NoRet
  /\ UNCHANGED <<ledger, refreshChan, bgWrite, bgSend, proc, worker, ops,
                 admitted, suspect>>

Next ==
  \/ \E c \in Callers, id \in AuthTokens, ok \in BOOLEAN :
       DeductTokens(c, id, ok)
  \/ \E c \in Callers, ok \in BOOLEAN : DeductUpdate(c, ok)
  \/ \E id \in AuthTokens, ok \in BOOLEAN : BgRecord(id, ok)
  \/ \E id \in AuthTokens : BgSend(id)
  \/ \E c \in Callers, id \in AuthTokens, n \in Amounts, ok \in BOOLEAN :
       AddTokens(c, id, n, ok)
  \/ \E c \in Callers, id \in AuthTokens, ok \in BOOLEAN :
       GetBalance(c, id, ok)
  \/ \E c \in Callers, ok \in BOOLEAN : GetBalanceReread(c, ok)
  \/ \E c \in Callers, ok \in BOOLEAN : RefreshQuery(c, ok)
  \/ \E c \in Callers, ok \in BOOLEAN : RefreshUpdate(c, ok)
  \/ WorkerRecv
  \/ \E ok \in BOOLEAN : WorkerQuery(ok)
  \/ \E ok \in BOOLEAN : WorkerUpdate(ok)
  \/ \E id \in AuthTokens : Expire(id)

Spec == Init /\ [][Next]_vars

(* ---- calls made one after another, the stores up ---- *)
\* The steps of Next that keep the run one of calls made one after another:
\* a call starts when no other is in progress, no call to a store fails, no
\* key expires, and the calls are made for clients.  The goroutines of
\* DeductTokens run between the steps.
SeqNext ==
  \/ \E c \in Callers, id \in Clients :
       DeductTokens(c, id, TRUE) /\ solo'
  \/ \E c \in Callers : DeductUpdate(c, TRUE) /\ solo'
  \/ \E id \in Clients : BgRecord(id, TRUE) /\ solo'
  \/ \E c \in Callers, id \in Clients, n \in Amounts :
       AddTokens(c, id, n, TRUE) /\ solo'
  \/ \E c \in Callers, id \in Clients :
       GetBalance(c, id, TRUE) /\ solo'
  \/ \E c \in Callers : GetBalanceReread(c, TRUE) /\ solo'
  \/ \E c \in Callers : RefreshQuery(c, TRUE) /\ solo'
  \/ \E c \in Callers : RefreshUpdate(c, TRUE) /\ solo'

SeqSpec == Start(SeqOps) /\ [][SeqNext]_vars

(* ---- calls made strictly one after another ---- *)
\* The steps of Next of a run in which a call is made only when no other call
\* is in progress and every goroutine of DeductTokens and every queued
\* refresh has finished.  Stores fail and keys expire as in Next.
SerialNext ==
  \/ \E c \in Callers, id \in AuthTokens, ok \in BOOLEAN :
       Quiescent /\ DeductTokens(c, id, ok)
  \/ \E c \in Callers, ok \in BOOLEAN : DeductUpdate(c, ok)
  \/ \E id \in AuthTokens, ok \in BOOLEAN : BgRecord(id, ok)
  \/ \E id \in AuthTokens : BgSend(id)
  \/ \E c \in Callers, id \in AuthTokens, n \in Amounts, ok \in BOOLEAN :
       Quiescent /\ AddTokens(c, id, n, ok)
  \/ \E c \in Callers, id \in AuthTokens, ok \in BOOLEAN :
       Quiescent /\ GetBalance(c, id, ok)
  \/ \E c \in Callers, ok \in BOOLEAN : GetBalanceReread(c, ok)
  \/ \E c \in Callers, ok \in BOOLEAN : RefreshQuery(c, ok)
  \/ \E c \in Callers, ok \in BOOLEAN : RefreshUpdate(c, ok)
  \/ WorkerRecv
  \/ \E ok \in BOOLEAN : WorkerQuery(ok)
  \/ \E ok \in BOOLEAN : WorkerUpdate(ok)
  \/ \E id \in AuthTokens : Expire(id)

SerialSpec == Start(SerialOps) /\ [][SerialNext]_vars

(* ---- the refresh channel full ---- *)
\* The service after CacheRefreshBatch calls of DeductTokens on one client
\* whose writes of the USAGE row have all failed: every goroutine has sent
\* its auth token, the worker has not yet taken one, and the channel is full.
StartFull(n) ==
  /\ limit = n
  /\ \E id \in Clients :
       /\ ledger = <<Row(id, CacheRefreshBatch + MaxAmount, "PURCHASE")>>
       /\ cache = [t \in AuthTokens |->
                    IF t = id THEN <<MaxAmount>> ELSE Absent]
       /\ refreshChan = [i \in 1..CacheRefreshBatch |-> id]
       /\ admitted = [t \in AuthTokens |->
                       IF t = id THEN CacheRefreshBatch ELSE 0]
       /\ suspect = [t \in AuthTokens |-> t = id]
  /\ bgWrite = [id \in AuthTokens |-> 0]
  /\ bgSend = [id \in AuthTokens |-> 0]
  /\ proc = [c \in Callers |-> Idle]
  /\ worker = WorkerIdle
  /\ ret = NoRet
  /\ ops = 0
  /\ env = 0
  /\ solo = FALSE
  /\ seq = <<>>

\* The steps of Next of a run in which the only store failure is the one
\* that sends to the channel, the failed INSERT of the USAGE row: calls of
\* DeductTokens and GetBalance for clients, their goroutines, the worker.
FullNext ==
  \/ \E c \in Callers, id \in Clients : DeductTokens(c, id, TRUE)
  \/ \E c \in Callers : DeductUpdate(c, TRUE)
  \/ \E id \in Clients, ok \in BOOLEAN : BgRecord(id, ok)
  \/ \E id \in Clients : BgSend(id)
  \/ \E c \in Callers, id \in Clients : GetBalance(c, id, TRUE)
  \/ WorkerRecv
  \/ WorkerQuery(TRUE)
  \/ WorkerUpdate(TRUE)

FullSpec == StartFull(FullOps) /\ [][FullNext]_vars

TypeOK ==
  /\ \A id \in AuthTokens : cache[id] = Absent \/ CacheGet(id) \in Int
  /\ Len(refreshChan) <= CacheRefreshBatch
  /\ ops \in 0..limit

(* ---- properties ---- *)
\* three calls in a row of the current run, made on the same client
Triple(i, op1, op2, op3) ==
  /\ i + 2 <= Len(seq)
  /\ seq[i].op = op1 /\ seq[i + 1].op = op2 /\ seq[i + 2].op = op3
  /\ seq[i].id \in Clients
  /\ seq[i + 1].id = seq[i].id /\ seq[i + 2].id = seq[i].id

\* C1: with nothing else in flight, GetBalance right after AddTokens(id, n)
\* returns what GetBalance returned right before it, plus n.
C1_AddThenGetBalance ==
  \A i \in 1..Len(seq) :
    (/\ Triple(i, "GetBalance", "AddTokens", "GetBalance")
     /\ seq[i].err = "nil"
     /\ seq[i + 1].quiet /\ seq[i + 2].quiet)
    => /\ seq[i + 1].err = "nil"
       /\ seq[i + 2].err = "nil"
       /\ seq[i + 2].val = seq[i].val + seq[i + 1].amt

\* C2: for a client whose balance is at least 1, DeductTokens succeeds and
\* GetBalance right after it returns the balance before it, minus 1.
C2_DeductThenGetBalance ==
  \A i \in 1..Len(seq) :
    (/\ Triple(i, "GetBalance", "DeductTokens", "GetBalance")
     /\ seq[i].err = "nil"
     /\ seq[i].val >= 1)
    => /\ seq[i + 1].err = "nil"
       /\ seq[i + 2].err = "nil"
       /\ seq[i + 2].val = seq[i].val - 1

C2_Witness ==
  /\ Len(seq) = 3
  /\ Triple(1, "GetBalance", "DeductTokens", "GetBalance")
  /\ seq[1].err = "nil" /\ seq[1].val >= 1
  /\ seq[3].val = seq[1].val - 1

\* caller c starts a call of op on id in this step
Starts(c, op, id) ==
  /\ proc[c].pc = "idle"
  /\ \/ proc'[c].op = op /\ proc'[c].id = id
     \/ ret'.caller = c /\ ret'.op = op /\ ret'.id = id

\* C3: DeductTokens on a cached balance below the cost returns
\* ErrInsufficientTokens and changes nothing: not the cache, the ledger or
\* the refresh channel, and it starts no goroutine.
C3_InsufficientChangesNothing ==
  [][\A c \in Callers, id \in AuthTokens :
       (/\ Starts(c, "DeductTokens", id)
        /\ env' = env
        /\ cache[id] # Absent
        /\ CacheGet(id) < TokenCost)
       => /\ ret'.caller = c
          /\ ret'.err = "ErrInsufficientTokens"
          /\ proc'[c] = Idle
          /\ UNCHANGED <<cache, ledger, refreshChan, bgWrite, bgSend>>]_vars

C3_Witness ==
  /\ ret.op = "DeductTokens"
  /\ ret.err = "ErrInsufficientTokens"
  /\ cache[ret.id] = <<0>>

\* the calls i+1..j of the current run are calls of DeductTokens on the
\* client of call i, a successful AddTokens
DeductsAfterAdd(i, j) ==
  /\ seq[i].op = "AddTokens" /\ seq[i].err = "nil"
  /\ seq[i].id \in Clients
  /\ \A k \in (i + 1)..j :
       seq[k].op = "DeductTokens" /\ seq[k].id = seq[i].id

\* C4: when the balance is n right after AddTokens, of the calls of
\* DeductTokens that follow one after another the first n succeed, every
\* later one returns ErrInsufficientTokens and the balance is then 0.
C4_SequentialMetering ==
  \A i \in 1..Len(seq) : \A j \in (i + 1)..Len(seq) :
    DeductsAfterAdd(i, j)
    => LET n == seq[i].cached[1] IN
       IF j - i <= n
         THEN seq[j].err = "nil" /\ seq[j].cached = <<n - (j - i)>>
         ELSE seq[j].err = "ErrInsufficientTokens" /\ seq[j].cached = <<0>>

C4_Witness ==
  /\ Len(seq) = 3
  /\ DeductsAfterAdd(1, 3)
  /\ seq[1].cached = <<1>>
  /\ seq[2].err = "nil"
  /\ seq[3].err = "ErrInsufficientTokens"
  /\ cache[seq[1].id] = <<0>>

\* C5: a call for an auth token that matches no client never succeeds: it
\* fails with ErrInvalidToken (or with the error of a store that is down).
C5_UnknownClientFails ==
  (ret.op # "none" /\ ret.id \notin Clients)
  => ret.err \in {"ErrInvalidToken", "redis error", "db error"}

\* C6: with the key of a client absent and nothing in flight, GetBalance
\* returns the purchases of the ledger minus its usages: the total
\* purchased minus TokenCost for each committed deduction.
C6_LedgerIsAuthoritative ==
  [][\A c \in Callers :
       (/\ proc[c].pc = "reread"
        /\ proc[c].id \in Clients
        /\ proc[c].quiet /\ solo'
        /\ ret'.caller = c)
       => /\ ret'.err = "nil"
          /\ ret'.val = Purchased(ledger, proc[c].id)
                        - TokenCost * UsageCount(ledger, proc[c].id)]_vars

\* C7: a cache miss alone never makes DeductTokens fail: for a client whose
\* key is absent and whose ledger balance is at least 1, DeductTokens does
\* not return the miss.
C7_DeductRefreshesOnMiss ==
  (/\ ret.op = "DeductTokens"
   /\ ret.id \in Clients
   /\ BalanceQuery(ret.id) >= 1)
  => ret.err # Nil

\* C8: AddTokens writes the cache only after its PURCHASE row is in the
\* ledger; when the insert fails it returns the error and leaves the cache
\* as it is; no cached balance exceeds what the ledger sums to.
C8_AppendBeforeCache ==
  [][/\ \A c \in Callers :
          (/\ proc[c].op = "AddTokens"
           /\ proc[c].id \in Clients
           /\ proc'[c] # proc[c]
           /\ cache' # cache)
          => \E k \in 1..Len(ledger) :
               ledger[k] = Row(proc[c].id, proc[c].amt, "PURCHASE")
     /\ \A c \in Callers, id \in Clients :
          (Starts(c, "AddTokens", id) /\ ledger' = ledger)
          => /\ ret'.caller = c
             /\ ret'.err = "db error"
             /\ proc'[c] = Idle
             /\ cache' = cache
     /\ \A id \in Clients :
          cache'[id] # Absent => cache'[id][1] <= SumRows(ledger', id)]_vars

C8_Witness ==
  /\ ret.op = "AddTokens"
  /\ ret.err = "nil"
  /\ ret.id \in Clients
  /\ cache[ret.id] = <<BalanceQuery(ret.id)>>

\* C9: AddTokens never returns an error once its PURCHASE row is appended.
C9_AddTokensAtomic ==
  [][\A c \in Callers :
       (/\ proc[c].op = "AddTokens"
        /\ proc[c].id \in Clients
        /\ ret'.caller = c)
       => ret'.err = "nil"]_vars

\* C10: DeductTokens returns nil in the step that writes the cache, before
\* the USAGE row is written; a failed write of the row is reported to no
\* caller and sends the auth token to the refresh channel exactly once; a
\* successful write sends nothing.
C10_DeductReturnsBeforeLedgerWrite ==
  [][/\ \A c \in Callers :
          (proc[c].pc = "deduct_update" /\ proc'[c] # proc[c] /\ env' = env)
          => /\ ret'.caller = c /\ ret'.err = "nil"
             /\ cache'[proc[c].id] = <<proc[c].bal - TokenCost>>
             /\ bgWrite'[proc[c].id] = bgWrite[proc[c].id] + 1
             /\ UNCHANGED <<ledger, refreshChan, bgSend>>
     /\ (ret'.op = "DeductTokens" /\ ret'.err = "nil")
          => proc[ret'.caller].pc = "deduct_update"
     /\ \A id \in AuthTokens :
          /\ bgWrite'[id] < bgWrite[id]
               => /\ ret' = NoRet /\ proc' = proc
                  /\ refreshChan' = refreshChan
                  /\ IF env' # env
                       THEN /\ bgSend'[id] = bgSend[id] + 1
                            /\ ledger' = ledger
                       ELSE /\ bgSend' = bgSend
                            /\ ledger' = InsertRow(id, 0 - TokenCost, "USAGE")
          /\ bgSend'[id] > bgSend[id]
               => bgWrite'[id] = bgWrite[id] - 1 /\ env' # env
          /\ bgSend'[id] < bgSend[id]
               => /\ bgSend'[id] = bgSend[id] - 1
                  /\ refreshChan' = Append(refreshChan, id)
                  /\ ret' = NoRet /\ proc' = proc
     /\ Len(refreshChan') > Len(refreshChan)
          => \E id \in AuthTokens :
               /\ refreshChan' = Append(refreshChan, id)
               /\ bgSend'[id] = bgSend[id] - 1]_vars

C10_Witness ==
  /\ refreshChan # <<>>
  /\ bgSend[Head(refreshChan)] = 0
  /\ bgWrite[Head(refreshChan)] = 0
  /\ UsageCount(ledger, Head(refreshChan)) = 0

\* the balance the ledger of record gives a client: its purchases minus the
\* cost of each of its usages
LedgerBalance(id) == Purchased(ledger, id) - TokenCost * UsageCount(ledger, id)

\* C11: once no call is in progress and every goroutine of DeductTokens and
\* every queued refresh has run to completion, the cached balance of each
\* client, if present, equals its ledger balance.
C11_EventuallyExact ==
  Quiescent
  => \A id \in Clients : cache[id] = Absent \/ CacheGet(id) = LedgerBalance(id)

\* more calls of DeductTokens were admitted for id than its balance covered:
\* the ledger holds one purchase of MaxAmount and nothing else, no store has
\* failed, and MaxAmount + 1 calls have returned nil, their goroutines not
\* yet run
Overdrawn(id) ==
  /\ ledger = <<Row(id, MaxAmount, "PURCHASE")>>
  /\ env = 0
  /\ admitted[id] = MaxAmount + 1
  /\ bgWrite[id] = MaxAmount + 1

\* C12 as stated: when concurrent calls of DeductTokens are admitted beyond
\* the balance, the cached balance goes negative.
C12_RaceDrivesCacheNegative ==
  \A id \in Clients :
    (Overdrawn(id) /\ cache[id] # Absent) => CacheGet(id) < 0

\* C12 as amended: concurrent calls of DeductTokens can be admitted beyond
\* the balance; each writes the balance it read minus TokenCost, which is
\* never negative, so the cache then holds a balance of 0 or more and the
\* deductions beyond the balance are lost from it.
C12_RaceLosesUpdate ==
  [][/\ \A c \in Callers :
          (/\ proc[c].pc = "deduct_update"
           /\ ret'.caller = c /\ ret'.err = "nil")
          => /\ cache'[proc[c].id] = <<proc[c].bal - TokenCost>>
             /\ proc[c].bal - TokenCost >= 0
     /\ \A id \in Clients :
          Overdrawn(id)' => cache'[id] # Absent /\ cache'[id][1] >= 0]_vars

C12_Witness ==
  \E id \in Clients :
    /\ Overdrawn(id)
    /\ AllIdle
    /\ cache[id] # Absent /\ CacheGet(id) >= 0

\* C13: the USAGE rows of a client, together with the goroutines that have
\* yet to write one, never outnumber the calls of DeductTokens that returned
\* nil for it: a call that was rejected or that failed leaves no USAGE row.
C13_UsageRowsAreAdmitted ==
  \A id \in AuthTokens : UsageCount(ledger, id) + bgWrite[id] <= admitted[id]

\* a USAGE row written in this run (a start state has two rows at most), with
\* every admitted call recorded
C13_Witness ==
  /\ Len(ledger) = 3
  /\ ledger[3].type = "USAGE"
  /\ UsageCount(ledger, ledger[3].client) = admitted[ledger[3].client]
  /\ bgWrite[ledger[3].client] = 0

\* C14: every call of DeductTokens that returned nil gets its USAGE row: once
\* the goroutines of DeductTokens and the refresh worker have run to
\* completion, no client has fewer USAGE rows than admitted calls, even when
\* a write of a row has failed.
C14_AdmittedIsRecorded ==
  Quiescent => \A id \in Clients : UsageCount(ledger, id) >= admitted[id]

\* C15: after the write of a USAGE row has failed for a client, and until a
\* refresh from the ledger has rewritten its key, no GetBalance returns the
\* cached balance of that client and no DeductTokens decides on it.
C15_SuspectEntryNotTrusted ==
  [][\A c \in Callers, id \in Clients :
       (suspect[id] /\ cache[id] # Absent /\ env' = env)
       => /\ ~(/\ Starts(c, "GetBalance", id)
               /\ ret'.caller = c /\ ret'.err = "nil")
          /\ ~Starts(c, "DeductTokens", id)]_vars

\* C16: every row appended to the ledger has a positive amount and a type of
\* PURCHASE or USAGE; the USAGE row of a deduction has the amount TokenCost
\* and lowers the balance the ledger sums to by exactly 1.
C16_PositiveAmounts ==
  [][Len(ledger') > Len(ledger)
     => LET r == ledger'[Len(ledger')] IN
        /\ ledger' = Append(ledger, r)
        /\ r.amount > 0
        /\ r.type \in {"PURCHASE", "USAGE"}
        /\ r.type = "USAGE"
             => /\ r.amount = TokenCost
                /\ SumRows(ledger', r.client) = SumRows(ledger, r.client) - 1]_vars

\* C17: the worker takes one auth token off the channel at a time and
\* refreshes it once: it reads the balance of the ledger and sets the key to
\* it; when the SELECT or the SET fails it drops the token (nothing is put
\* back on the channel), leaves the cache as it is and takes the next one.
\* Nothing but the worker takes tokens off the channel.
C17_RepairOnce ==
  [][/\ (worker.pc = "recv" /\ worker' # worker)
          => /\ refreshChan # <<>>
             /\ worker' = [pc |-> "refresh_query", id |-> Head(refreshChan),
                           bal |-> 0]
             /\ refreshChan' = Tail(refreshChan)
             /\ UNCHANGED <<cache, ledger, bgSend>>
     /\ (worker.pc = "refresh_query" /\ worker' # worker)
          => /\ UNCHANGED <<cache, ledger, refreshChan, bgSend>>
             /\ IF env' = env
                  THEN worker' = [pc |-> "refresh_update", id |-> worker.id,
                                  bal |-> BalanceQuery(worker.id)]
                  ELSE worker' = WorkerIdle
     /\ (worker.pc = "refresh_update" /\ worker' # worker)
          => /\ UNCHANGED <<ledger, refreshChan, bgSend>>
             /\ worker' = WorkerIdle
             /\ IF env' = env
                  THEN cache' = CacheSet(worker.id, worker.bal)
                  ELSE cache' = cache
     /\ worker' = worker => Len(refreshChan') >= Len(refreshChan)]_vars

\* a repair that failed and was dropped: the write of a USAGE row failed for
\* a client, no refresh has rewritten its key since, and nothing is left to
\* run
C17_Witness ==
  \E id \in Clients :
    /\ suspect[id]
    /\ cache[id] # Absent
    /\ NoBackground

\* C18: a refresh that writes the balance of a ledger that has not changed
\* since it was read sets the key to the balance the ledger sums to and
\* changes neither the ledger nor the channel; when the key already holds
\* that balance (an earlier refresh wrote it), the cache stays as it is.
C18_RepairIdempotent ==
  [][/\ (/\ worker.pc = "refresh_update" /\ worker' # worker
         /\ env' = env
         /\ worker.bal = BalanceQuery(worker.id))
          => /\ cache'[worker.id] = <<BalanceQuery(worker.id)>>
             /\ UNCHANGED <<ledger, refreshChan>>
             /\ cache[worker.id] = <<BalanceQuery(worker.id)>>
                  => cache' = cache
     /\ \A c \in Callers :
          (/\ proc[c].pc = "refresh_update" /\ proc'[c] # proc[c]
           /\ env' = env
           /\ proc[c].bal = BalanceQuery(proc[c].id))
          => /\ cache'[proc[c].id] = <<BalanceQuery(proc[c].id)>>
             /\ UNCHANGED <<ledger, refreshChan>>
             /\ cache[proc[c].id] = <<BalanceQuery(proc[c].id)>>
                  => cache' = cache]_vars

\* two repairs have run one after the other on an unchanged ledger: two
\* admitted calls have no USAGE row, the two store failures of the run were
\* the failures of their writes, and both repairs have run and succeeded
C18_Witness ==
  \E id \in Clients :
    /\ admitted[id] = 2 /\ UsageCount(ledger, id) = 0
    /\ env = 2
    /\ Quiescent
    /\ ~suspect[id]
    /\ cache[id] = <<BalanceQuery(id)>>

\* the channel is full
ChanFull == Len(refreshChan) = CacheRefreshBatch

\* C19: the channel never holds more than CacheRefreshBatch auth tokens.  A
\* goroutine whose write failed sends its token when the channel has room
\* and waits while it is full; the worker can then always take a token off,
\* after which the goroutine can send: a token leaves a goroutine only onto
\* the channel.  While a goroutine waits, a call in progress can take its
\* next step and a free handler can start a call.
C19_FullChannelBlocksOnlySender ==
  /\ [](/\ Len(refreshChan) <= CacheRefreshBatch
        /\ \A id \in Clients :
             bgSend[id] > 0
             => /\ ENABLED BgSend(id) <=> ~ChanFull
                /\ ChanFull
                     => /\ worker.pc = "recv" => ENABLED WorkerRecv
                        /\ worker.pc # "recv"
                             => ENABLED (WorkerQuery(TRUE) \/ WorkerUpdate(TRUE))
                        /\ \A c \in Callers :
                             /\ proc[c].pc = "deduct_update"
                                  => ENABLED DeductUpdate(c, TRUE)
                             /\ (ops < limit /\ proc[c].pc = "idle"
                                 /\ \A d \in Callers :
                                      d < c => proc[d].pc # "idle")
                                  => ENABLED GetBalance(c, id, TRUE))
  /\ [][\A id \in Clients :
          /\ bgSend'[id] < bgSend[id]
               => /\ ~ChanFull
                  /\ refreshChan' = Append(refreshChan, id)
                  /\ bgSend'[id] = bgSend[id] - 1
                  /\ proc' = proc
          /\ (bgSend[id] > 0 /\ ChanFull) => bgSend'[id] >= bgSend[id]]_vars

\* the channel is full again after the worker has taken one token off it and
\* one goroutine has sent; another goroutine waits to send
C19_Witness ==
  \E id \in Clients :
    /\ ChanFull
    /\ admitted[id] = CacheRefreshBatch + 2
    /\ UsageCount(ledger, id) = 0
    /\ bgWrite[id] = 0
    /\ bgSend[id] = 1
    /\ worker.pc # "recv"

\* C20: when calls are made strictly one after another, no client has more
\* calls of DeductTokens that returned nil than tokens added to it, even
\* when writes of USAGE rows fail and repairs run.  Every AddTokens that
\* returns nil has its PURCHASE row in the ledger, so the amounts purchased
\* in the ledger are at least the amounts added.
C20_SerialMetering ==
  \A id \in Clients : admitted[id] <= Purchased(ledger, id)

====
